---- MODULE Spec2Model ----
(***************************************************************************)
(* Model of the seller report of asemina13/sales-bonus: analyzeSalesData   *)
(* of src/src/main.js with its strategies calculateSimpleRevenue and       *)
(* calculateBonusByProfit.                                                 *)
(*                                                                         *)
(* One call of analyzeSalesData(data, options) is a run of the machine:    *)
(* validation, the option check, the three reduce() indexes, one step per  *)
(* purchase record of the forEach, the map+sort that ranks the sellers and *)
(* the map that emits the report.                                          *)
(*                                                                         *)
(* A seller's name is copied from the input to the row and plays no part   *)
(* in any computation; the model leaves it out.                            *)
(*                                                                         *)
(* The second analyzeSalesData of src/unnamed/part_002, which adds the     *)
(* amounts un-rounded, is modelled as operators over the same arguments,   *)
(* as far as the revenue and the profit of its rows go.                    *)
(*                                                                         *)
(* Numbers.  A JavaScript number is modelled as an exact decimal, held as  *)
(* an integer count of 1/Scale (1/10000): 1.25 is 12500.  The value sets   *)
(* below keep every product a whole count of that unit, so the arithmetic  *)
(* is exact; binary floating-point error is not modelled.  NaN and         *)
(* undefined are two values outside the range of the amounts.              *)
(***************************************************************************)
EXTENDS Integers, Sequences, FiniteSets, TLC

VARIABLES
    data,           \* the argument data
    options,        \* the argument options
    pc,             \* where the call is
    error,          \* the exception the call ended with, or "none"
    productsIndex,  \* sku -> product                       (main.js:76)
    sellerStats,    \* the values of sellerStats, in property order (main.js:88)
    recIdx,         \* the purchase record the forEach is at   (main.js:105)
    revenueCalls,   \* history: <<record, item>> of every calculateRevenue call
    rankedSellers,  \* main.js:146
    finalReport     \* main.js:160, the value returned

vars == <<data, options, pc, error, productsIndex, sellerStats, recIdx,
          revenueCalls, rankedSellers, finalReport>>

----------------------------------------------------------------------------
(* Bounds of the model *)

MaxSellers == 3
MaxRanked == 5
MaxRecords == 2

----------------------------------------------------------------------------
(* Numbers *)

Hundred == 100
Scale == Hundred * Hundred
NaN == 0 - Scale * Scale
Undefined == NaN - 1

\* The number n (an integer literal of the source).
N(n) == n * Scale

\* ToNumber of a field that may be missing: undefined becomes NaN.
ToNumber(x) == IF x = Undefined THEN NaN ELSE x

Add(a, b) == IF a = NaN \/ b = NaN THEN NaN ELSE a + b

Sub(a, b) == IF a = NaN \/ b = NaN THEN NaN ELSE a - b

\* a * b, split so that no intermediate product leaves 32 bits.
Mul(a, b) ==
    IF a = NaN \/ b = NaN THEN NaN
    ELSE (a \div Scale) * b + ((a % Scale) * b) \div Scale

\* x / 100
DivHundred(x) == IF x = NaN THEN NaN ELSE x \div Hundred

\* Math.round: the nearest integer, a tie going up (towards +Infinity).
MathRound(x) == IF x = NaN THEN NaN ELSE ((x + Scale \div 2) \div Scale) * Scale

\* Number.prototype.toFixed(2) read back with unary +: the nearest multiple
\* of 0.01, a tie going away from zero; NaN prints "NaN" and reads back NaN.
ToFixed2(x) ==
    IF x = NaN THEN NaN
    ELSE IF x < 0 THEN 0 - (((0 - x) + Hundred \div 2) \div Hundred) * Hundred
    ELSE ((x + Hundred \div 2) \div Hundred) * Hundred

\* const roundToTwo = (num) => Math.round(num * 100) / 100;
roundToTwo(num) ==
    IF num = NaN THEN NaN ELSE DivHundred(MathRound(num * Hundred))

\* a >= b of two numbers: false as soon as one is NaN.
Geq(a, b) == a # NaN /\ b # NaN /\ a >= b

\* !x of a number: 0 and NaN are falsy.
Falsy(x) == x = 0 \/ x = NaN \/ x = Undefined

----------------------------------------------------------------------------
(* The strategies of the repository *)

\* function calculateSimpleRevenue(purchase, _product): a purchase without
\* a discount field gives undefined / 100, which is NaN.
calculateSimpleRevenue(purchase, product) ==
    LET discountFactor == Sub(N(1), DivHundred(ToNumber(purchase.discount)))
    IN  Mul(Mul(purchase.sale_price, purchase.quantity), discountFactor)

\* The calculateSimpleRevenue of the variant that destructures
\* { discount = 0 }: a missing discount counts as 0.
calculateSimpleRevenueDefault(purchase, product) ==
    LET discount == IF purchase.discount = Undefined THEN 0 ELSE purchase.discount
        discountFactor == Sub(N(1), DivHundred(discount))
    IN  Mul(Mul(purchase.sale_price, purchase.quantity), discountFactor)

\* A plausible slip: the bottom rule is tried first, so that a single
\* seller, who is first and last, gets 0.
calculateBonusByProfitBottomFirst(index, total, seller) ==
    IF index = total - 1 THEN 0
    ELSE IF index = 0 THEN 15 * Hundred
    ELSE IF index = 1 \/ index = 2 THEN 10 * Hundred
    ELSE 5 * Hundred

\* A plausible slip: the bottom rule is tried before the rule for the
\* second and third place.
calculateBonusByProfitBottomSecond(index, total, seller) ==
    IF index = 0 THEN 15 * Hundred
    ELSE IF index = total - 1 THEN 0
    ELSE IF index = 1 \/ index = 2 THEN 10 * Hundred
    ELSE 5 * Hundred

\* A plausible slip: the rates of the first place and of the second and
\* third are swapped.
calculateBonusByProfitSwapped(index, total, seller) ==
    IF index = 0 THEN 10 * Hundred
    ELSE IF index = 1 \/ index = 2 THEN 15 * Hundred
    ELSE IF index = total - 1 THEN 0
    ELSE 5 * Hundred

\* function calculateBonusByProfit(index, total, seller) of main.js: the
\* result is the rate, 0.15, 0.1, 0 or 0.05.
calculateBonusByProfit(index, total, seller) ==
    IF index = 0 THEN 15 * Hundred
    ELSE IF index = 1 \/ index = 2 THEN 10 * Hundred
    ELSE IF index = total - 1 THEN 0
    ELSE 5 * Hundred

\* The calculateBonusByProfit of the variant that returns the amount,
\* profit * multiplier, un-rounded.
calculateBonusAmount(index, total, seller) ==
    LET multiplier == IF index = 0 THEN 15 * Hundred
                      ELSE IF index = 1 \/ index = 2 THEN 10 * Hundred
                      ELSE IF index = total - 1 THEN 0
                      ELSE 5 * Hundred
    IN  Mul(seller.profit, multiplier)

NoFunction == "undefined"

RevenueStrategies == {"calculateSimpleRevenue", "calculateSimpleRevenueDefault"}

BonusStrategies == {"calculateBonusByProfit", "calculateBonusAmount"}

\* calculateRevenue(purchase, product) with the function options supplied.
CallRevenue(f, purchase, product) ==
    IF f = "calculateSimpleRevenue" THEN calculateSimpleRevenue(purchase, product)
    ELSE calculateSimpleRevenueDefault(purchase, product)

\* calculateBonus(index, totalSellers, seller) with the function supplied.
CallBonus(f, index, total, seller) ==
    IF f = "calculateBonusByProfit" THEN calculateBonusByProfit(index, total, seller)
    ELSE calculateBonusAmount(index, total, seller)

----------------------------------------------------------------------------
(* Values and objects *)

\* data.sellers, data.products and data.purchase_records are any values:
\* undefined (or null), another falsy value (0, ""), a truthy value that is
\* no array (an object, a number: it has no length and no reduce), or an
\* array.
Arr(s) == [kind |-> "array", elems |-> s]

UndefinedField == [kind |-> "undefined", elems |-> <<>>]

FalsyField == [kind |-> "falsy", elems |-> <<>>]

ObjectField == [kind |-> "object", elems |-> <<>>]

\* !field
Not(field) == field.kind \in {"undefined", "falsy"}

\* field.length === 0: the length of a value that is no array is undefined.
LengthIsZero(field) == field.kind = "array" /\ Len(field.elems) = 0

Front(s) == SubSeq(s, 1, Len(s) - 1)

Last(s) == s[Len(s)]

\* Seller ids 1 and 2 are the numbers 1 and 2: as property keys they are
\* array indices, which an object lists first and in ascending order.
\* Ids 11, 12 and 13 stand for strings such as "seller_11", listed in the
\* order they were added.
IntegerIds == {1, 2}

IsArrayIndex(id) == id \in IntegerIds

\* The order Array.prototype.sort gives a consistent comparator
\* (a, b) => b.key - a.key: descending and stable.  The result lists the
\* positions of keys.
RECURSIVE StableOrderDesc(_)
StableOrderDesc(keys) ==
    IF keys = <<>> THEN <<>>
    ELSE LET n == Len(keys)
             prev == StableOrderDesc(Front(keys))
             k == Cardinality({j \in 1..Len(prev) :
                                  ~(Sub(keys[n], keys[prev[j]]) # NaN
                                    /\ Sub(keys[n], keys[prev[j]]) > 0)})
         IN  SubSeq(prev, 1, k) \o <<n>> \o SubSeq(prev, k + 1, Len(prev))

\* A comparator b.key - a.key is NaN, read as 0, as soon as one key is NaN:
\* it is then consistent only if all other keys are equal.
ConsistentKeys(keys) ==
    \/ \A i \in DOMAIN keys : keys[i] # NaN
    \/ \A i, j \in DOMAIN keys : keys[i] # NaN /\ keys[j] # NaN => keys[i] = keys[j]

----------------------------------------------------------------------------
(* analyzeSalesData, step by step *)

\* The condition of the first if.
InvalidData(d) ==
    \/ ~d.present
    \/ Not(d.sellers)
    \/ Not(d.products)
    \/ Not(d.purchase_records)
    \/ LengthIsZero(d.sellers)
    \/ LengthIsZero(d.products)
    \/ LengthIsZero(d.purchase_records)

\* const { calculateRevenue, calculateBonus } = options || {};
OptionOf(o, field) == IF o.present THEN o[field] ELSE NoFunction

\* A plausible slip: only the revenue function is looked for.
MissingRevenueOnly(o) == OptionOf(o, "calculateRevenue") = NoFunction

MissingStrategy(o) ==
    \/ OptionOf(o, "calculateRevenue") = NoFunction
    \/ OptionOf(o, "calculateBonus") = NoFunction

\* data.products.reduce(...): the last product of a sku wins.
ProductsIndexOf(products) ==
    [s \in {products[i].sku : i \in DOMAIN products} |->
        products[CHOOSE i \in DOMAIN products :
                    /\ products[i].sku = s
                    /\ \A j \in DOMAIN products : j > i => products[j].sku # s]]

NoProduct == [sku |-> "undefined", purchase_price |-> Undefined]

\* A plausible slip: the revenue is not initialised, and undefined + x is NaN.
NewStatsNoRevenue(id) ==
    [seller_id |-> id, revenue |-> NaN, cost |-> 0, profit |-> 0,
     sales_count |-> 0, products_sold |-> <<>>]

NewStats(id) ==
    [seller_id |-> id, revenue |-> 0, cost |-> 0, profit |-> 0,
     sales_count |-> 0, products_sold |-> <<>>]

\* The position of the property id among the values of sellerStats, or 0.
StatsPos(stats, id) ==
    IF \E i \in DOMAIN stats : stats[i].seller_id = id
    THEN CHOOSE i \in DOMAIN stats : stats[i].seller_id = id
    ELSE 0

\* acc[seller.id] = {...}: an existing property keeps its place.
PutStats(acc, st) ==
    LET at == StatsPos(acc, st.seller_id)
        k == Cardinality({i \in DOMAIN acc :
                             /\ IsArrayIndex(acc[i].seller_id)
                             /\ acc[i].seller_id < st.seller_id})
    IN  IF at # 0 THEN [acc EXCEPT ![at] = st]
        ELSE IF IsArrayIndex(st.seller_id)
             THEN SubSeq(acc, 1, k) \o <<st>> \o SubSeq(acc, k + 1, Len(acc))
             ELSE Append(acc, st)

\* A plausible slip: the rows are pushed to an array, one per input seller.
RECURSIVE SellerStatsPushed(_)
SellerStatsPushed(sellers) ==
    IF sellers = <<>> THEN <<>>
    ELSE Append(SellerStatsPushed(Front(sellers)), NewStats(Last(sellers).id))

\* const sellerStats = data.sellers.reduce(...)
RECURSIVE SellerStatsOf(_)
SellerStatsOf(sellers) ==
    IF sellers = <<>> THEN <<>>
    ELSE PutStats(SellerStatsOf(Front(sellers)), NewStats(Last(sellers).id))

\* The position of sku among the properties of products_sold, or 0.
SoldPos(sold, sku) ==
    IF \E i \in DOMAIN sold : sold[i].sku = sku
    THEN CHOOSE i \in DOMAIN sold : sold[i].sku = sku
    ELSE 0

\* A plausible slip: an item whose sku the catalog does not have is skipped.
ProcessItemSkipUnknown(st, purchase, index, f) ==
    LET hasProduct == purchase.sku \in DOMAIN index
        product == IF hasProduct THEN index[purchase.sku] ELSE NoProduct
        unitCost == IF hasProduct THEN product.purchase_price ELSE 0
        itemCost == roundToTwo(Mul(unitCost, purchase.quantity))
        revenue == roundToTwo(CallRevenue(f, purchase, product))
        sold == st.products_sold
        pos == SoldPos(sold, purchase.sku)
        at == IF pos = 0 THEN Len(sold) + 1 ELSE pos
        sold0 == IF pos = 0 THEN Append(sold, [sku |-> purchase.sku, count |-> 0])
                 ELSE IF Falsy(sold[pos].count) THEN [sold EXCEPT ![pos].count = 0]
                 ELSE sold
    IN  IF ~hasProduct THEN st ELSE
        [st EXCEPT !.revenue = Add(@, revenue),
                   !.cost = Add(@, itemCost),
                   !.sales_count = Add(@, purchase.quantity),
                   !.products_sold = [sold0 EXCEPT ![at].count = Add(@, purchase.quantity)]]

\* A plausible slip: products_sold[sku] = quantity, where += is meant.
ProcessItemLastQuantity(st, purchase, index, f) ==
    LET hasProduct == purchase.sku \in DOMAIN index
        product == IF hasProduct THEN index[purchase.sku] ELSE NoProduct
        unitCost == IF hasProduct THEN product.purchase_price ELSE 0
        itemCost == roundToTwo(Mul(unitCost, purchase.quantity))
        revenue == roundToTwo(CallRevenue(f, purchase, product))
        sold == st.products_sold
        pos == SoldPos(sold, purchase.sku)
        at == IF pos = 0 THEN Len(sold) + 1 ELSE pos
        sold0 == IF pos = 0 THEN Append(sold, [sku |-> purchase.sku, count |-> 0])
                 ELSE IF Falsy(sold[pos].count) THEN [sold EXCEPT ![pos].count = 0]
                 ELSE sold
    IN  [st EXCEPT !.revenue = Add(@, revenue),
                   !.cost = Add(@, itemCost),
                   !.sales_count = Add(@, purchase.quantity),
                   !.products_sold = [sold0 EXCEPT ![at].count = purchase.quantity]]

\* A plausible slip: stats.revenue = revenue, where += is meant.
ProcessItemLastRevenue(st, purchase, index, f) ==
    LET hasProduct == purchase.sku \in DOMAIN index
        product == IF hasProduct THEN index[purchase.sku] ELSE NoProduct
        unitCost == IF hasProduct THEN product.purchase_price ELSE 0
        itemCost == roundToTwo(Mul(unitCost, purchase.quantity))
        revenue == roundToTwo(CallRevenue(f, purchase, product))
        sold == st.products_sold
        pos == SoldPos(sold, purchase.sku)
        at == IF pos = 0 THEN Len(sold) + 1 ELSE pos
        sold0 == IF pos = 0 THEN Append(sold, [sku |-> purchase.sku, count |-> 0])
                 ELSE IF Falsy(sold[pos].count) THEN [sold EXCEPT ![pos].count = 0]
                 ELSE sold
    IN  [st EXCEPT !.revenue = revenue,
                   !.cost = Add(@, itemCost),
                   !.sales_count = Add(@, purchase.quantity),
                   !.products_sold = [sold0 EXCEPT ![at].count = Add(@, purchase.quantity)]]

\* The body of record.items.forEach.
ProcessItem(st, purchase, index, f) ==
    LET hasProduct == purchase.sku \in DOMAIN index
        product == IF hasProduct THEN index[purchase.sku] ELSE NoProduct
        unitCost == IF hasProduct THEN product.purchase_price ELSE 0
        itemCost == roundToTwo(Mul(unitCost, purchase.quantity))
        revenue == roundToTwo(CallRevenue(f, purchase, product))
        sold == st.products_sold
        pos == SoldPos(sold, purchase.sku)
        at == IF pos = 0 THEN Len(sold) + 1 ELSE pos
        sold0 == IF pos = 0 THEN Append(sold, [sku |-> purchase.sku, count |-> 0])
                 ELSE IF Falsy(sold[pos].count) THEN [sold EXCEPT ![pos].count = 0]
                 ELSE sold
    IN  [st EXCEPT !.revenue = Add(@, revenue),
                   !.cost = Add(@, itemCost),
                   !.sales_count = Add(@, purchase.quantity),
                   !.products_sold = [sold0 EXCEPT ![at].count = Add(@, purchase.quantity)]]

RECURSIVE ProcessItems(_, _, _, _)
ProcessItems(st, items, index, f) ==
    IF items = <<>> THEN st
    ELSE ProcessItem(ProcessItems(st, Front(items), index, f), Last(items), index, f)

\* A plausible slip: the record of a seller nobody lists is booked on the
\* first seller.
ProcessRecordOnFirst(stats, record, index, f) ==
    LET found == StatsPos(stats, record.seller_id)
        at == IF found = 0 THEN 1 ELSE found
    IN  [stats EXCEPT ![at] = ProcessItems(@, record.items, index, f)]

\* The body of data.purchase_records.forEach.
ProcessRecord(stats, record, index, f) ==
    LET at == StatsPos(stats, record.seller_id)
    IN  IF at = 0 THEN stats
        ELSE [stats EXCEPT ![at] = ProcessItems(@, record.items, index, f)]

\* The calculateRevenue calls the body makes for record r.
RevenueCallsOf(stats, record, r) ==
    IF StatsPos(stats, record.seller_id) = 0 THEN <<>>
    ELSE [k \in 1..Len(record.items) |-> <<r, k>>]

\* Object.values(sellerStats).map(...): the profit of each seller.
WithProfit(stats) ==
    [i \in DOMAIN stats |->
        [stats[i] EXCEPT !.profit = roundToTwo(Sub(stats[i].revenue, stats[i].cost))]]

\* rankedSellers.sort((a, b) => b.profit - a.profit): every result the sort
\* may give.  With an inconsistent comparator the order is
\* implementation-defined.
SortOutcomes(sellers) ==
    LET keys == [i \in DOMAIN sellers |-> sellers[i].profit]
        n == Len(sellers)
    IN  IF ConsistentKeys(keys)
        THEN {[i \in 1..n |-> sellers[StableOrderDesc(keys)[i]]]}
        ELSE {[i \in 1..n |-> sellers[p[i]]] : p \in Permutations(1..n)}

TopN == 10

\* A plausible slip: the list is cut to ten entries before it is sorted.
TopProductsCutFirst(sold) ==
    LET n == IF Len(sold) < TopN THEN Len(sold) ELSE TopN
        cut == SubSeq(sold, 1, n)
        order == StableOrderDesc([i \in DOMAIN cut |-> cut[i].count])
    IN  [i \in 1..n |-> [sku |-> cut[order[i]].sku, quantity |-> cut[order[i]].count]]

\* Object.entries(seller.products_sold) ... .sort(...).slice(0, 10)
TopProducts(sold) ==
    LET order == StableOrderDesc([i \in DOMAIN sold |-> sold[i].count])
        n == IF Len(sold) < TopN THEN Len(sold) ELSE TopN
    IN  [i \in 1..n |-> [sku |-> sold[order[i]].sku, quantity |-> sold[order[i]].count]]

\* The row finalReport gets for the seller at index of rankedSellers.
ReportRow(seller, index, total, f) ==
    LET bonusPercentage == CallBonus(f, index, total, seller)
        bonusAmount == Mul(seller.profit, bonusPercentage)
    IN  [seller_id |-> seller.seller_id,
         revenue |-> ToFixed2(seller.revenue),
         profit |-> ToFixed2(seller.profit),
         sales_count |-> seller.sales_count,
         top_products |-> TopProducts(seller.products_sold),
         bonus |-> ToFixed2(bonusAmount)]

FinalReportOf(ranked, f) ==
    [i \in DOMAIN ranked |-> ReportRow(ranked[i], i - 1, Len(ranked), f)]

----------------------------------------------------------------------------
(* The variant that rounds in the emitted row only: the second             *)
(* analyzeSalesData of src/unnamed/part_002.  Its validation, its indexes  *)
(* and its accumulators of zeros are those of main.js.                     *)

\* const roundToTwo = (num) => Number(num.toFixed(2));
roundToTwoFixed(num) == ToFixed2(num)

\* The body of record.items.forEach: revenue and cost are added un-rounded.
ProcessItemUnrounded(st, purchase, index, f) ==
    LET hasProduct == purchase.sku \in DOMAIN index
        product == IF hasProduct THEN index[purchase.sku] ELSE NoProduct
        unitCost == IF hasProduct THEN product.purchase_price ELSE 0
        itemCost == Mul(unitCost, purchase.quantity)
        revenue == CallRevenue(f, purchase, product)
        sold == st.products_sold
        pos == SoldPos(sold, purchase.sku)
        at == IF pos = 0 THEN Len(sold) + 1 ELSE pos
        sold0 == IF pos = 0 THEN Append(sold, [sku |-> purchase.sku, count |-> 0])
                 ELSE IF Falsy(sold[pos].count) THEN [sold EXCEPT ![pos].count = 0]
                 ELSE sold
    IN  [st EXCEPT !.revenue = Add(@, revenue),
                   !.cost = Add(@, itemCost),
                   !.products_sold = [sold0 EXCEPT ![at].count = Add(@, purchase.quantity)]]

RECURSIVE ProcessItemsUnrounded(_, _, _, _)
ProcessItemsUnrounded(st, items, index, f) ==
    IF items = <<>> THEN st
    ELSE ProcessItemUnrounded(ProcessItemsUnrounded(st, Front(items), index, f),
                              Last(items), index, f)

\* The body of data.purchase_records.forEach: one sale per record.
ProcessRecordUnrounded(stats, record, index, f) ==
    LET at == StatsPos(stats, record.seller_id)
    IN  IF at = 0 THEN stats
        ELSE [stats EXCEPT ![at] =
                 ProcessItemsUnrounded([@ EXCEPT !.sales_count = Add(@, N(1))],
                                       record.items, index, f)]

\* data.purchase_records.forEach(...)
RECURSIVE ForEachRecordUnrounded(_, _, _, _)
ForEachRecordUnrounded(stats, records, index, f) ==
    IF records = <<>> THEN stats
    ELSE ProcessRecordUnrounded(ForEachRecordUnrounded(stats, Front(records), index, f),
                                Last(records), index, f)

\* A plausible slip: the cost is not taken off.
WithProfitUnroundedNoCost(stats) ==
    [i \in DOMAIN stats |-> [stats[i] EXCEPT !.profit = stats[i].revenue]]

\* Object.values(sellerStats).map(...): profit: s.revenue - s.cost, un-rounded.
WithProfitUnrounded(stats) ==
    [i \in DOMAIN stats |->
        [stats[i] EXCEPT !.profit = Sub(stats[i].revenue, stats[i].cost)]]

\* The sellers of that variant before its sort, for the arguments d and f.
SellersUnrounded(d, f) ==
    WithProfitUnrounded(
        ForEachRecordUnrounded(SellerStatsOf(d.sellers.elems), d.purchase_records.elems,
                               ProductsIndexOf(d.products.elems), f))

\* The revenue and the profit of the row that variant emits for a seller:
\* revenue: roundToTwo(seller.revenue), profit: roundToTwo(seller.profit).
\* Neither depends on the rank of the seller.
EmittedUnrounded(seller) ==
    [seller_id |-> seller.seller_id,
     revenue |-> roundToTwoFixed(seller.revenue),
     profit |-> roundToTwoFixed(seller.profit)]

----------------------------------------------------------------------------
(* The calls the model makes *)

\* The catalog: two products of sku "A" (the later one, at 0.50, wins) and
\* "B" at 3.00.  No product has sku "X".
Catalog ==
    << [sku |-> "A", purchase_price |-> 99900],
       [sku |-> "A", purchase_price |-> 5000],
       [sku |-> "B", purchase_price |-> 30000] >>

\* 2 x 1.25 at 10% off: revenue 2.25, cost 1.00.
ItemA == [sku |-> "A", quantity |-> N(2), sale_price |-> 12500, discount |-> N(10)]

\* 1 x 0.25 at 50% off: revenue 0.125, cost 0.50.
ItemTie == [sku |-> "A", quantity |-> N(1), sale_price |-> 2500, discount |-> N(50)]

\* 1 x 1.00: revenue 1.00, cost 3.00.
ItemLoss == [sku |-> "B", quantity |-> N(1), sale_price |-> N(1), discount |-> 0]

\* 3 x 1.00 of a sku the catalog does not have.
ItemUnknownSku == [sku |-> "X", quantity |-> N(3), sale_price |-> N(1), discount |-> 0]

\* 1 x 1.00 with no discount field.
ItemNoDiscount ==
    [sku |-> "A", quantity |-> N(1), sale_price |-> N(1), discount |-> Undefined]

Rec(id, items) == [seller_id |-> id, items |-> items]

\* The purchase records the calls are made of: profit 5.50, -2.00, 0 and
\* NaN-or-0.50 for seller 1, -2.37 and 5.50 for seller 11, and a record
\* of seller 99, whom no call lists.
RecordPool ==
    { Rec(1, <<ItemA, ItemUnknownSku, ItemA>>),
      Rec(1, <<ItemLoss>>),
      Rec(1, <<>>),
      Rec(1, <<ItemNoDiscount>>),
      Rec(11, <<ItemLoss, ItemTie>>),
      Rec(11, <<ItemA, ItemUnknownSku, ItemA>>),
      Rec(99, <<ItemA, ItemUnknownSku, ItemA>>) }

SeqsUpTo(S, n) == UNION {[1..k -> S] : k \in 1..n}

SellerPool == {[id |-> i] : i \in {1, 11}}

\* A list of distinct sellers, for the reports of three sellers and more.
LongSellers == << [id |-> 11], [id |-> 2], [id |-> 1], [id |-> 12], [id |-> 13], [id |-> 14] >>

SellerLists ==
    SeqsUpTo(SellerPool, MaxSellers)
        \cup {SubSeq(LongSellers, 1, n) : n \in 3..MaxRanked}

RecordLists == SeqsUpTo(RecordPool, MaxRecords)

ValidData ==
    [present : {TRUE},
     sellers : {Arr(s) : s \in SellerLists},
     products : {Arr(Catalog)},
     purchase_records : {Arr(r) : r \in RecordLists}]

\* 1 x 0.25 at 150% off: revenue -0.125, cost 0.50.
ItemOverDiscount ==
    [sku |-> "A", quantity |-> N(1), sale_price |-> 2500, discount |-> N(150)]

\* Twelve skus the catalog does not have.
ManySkus ==
    << "S01", "S02", "S03", "S04", "S05", "S06",
       "S07", "S08", "S09", "S10", "S11", "S12" >>

\* One line item per sku of ManySkus: k units of the k-th sku at 1.00.
ManyItems ==
    [k \in DOMAIN ManySkus |->
        [sku |-> ManySkus[k], quantity |-> N(k), sale_price |-> N(1), discount |-> 0]]

\* The k-th seller of LongSellers sells k times ItemA: profit k x 1.25.
LadderRecords ==
    [k \in DOMAIN LongSellers |-> Rec(LongSellers[k].id, [j \in 1..k |-> ItemA])]

Call(sellers, records) ==
    [present |-> TRUE, sellers |-> Arr(sellers), products |-> Arr(Catalog),
     purchase_records |-> Arr(records)]

\* Calls beyond the lists above: an item with a negative revenue, a seller
\* of more skus than the report keeps (the second record brings the second
\* sku to 13 units), a report in which every seller has a profit of its
\* own, and one in which two sellers have the same profit.
FocusData ==
    { Call(<<[id |-> 1]>>, <<Rec(1, <<ItemOverDiscount>>)>>),
      Call(<<[id |-> 1], [id |-> 11]>>,
           <<Rec(1, <<ItemA, ItemOverDiscount>>), Rec(11, <<ItemOverDiscount, ItemTie>>)>>),
      Call(<<[id |-> 1]>>, <<Rec(1, ManyItems)>>),
      Call(<<[id |-> 1], [id |-> 11]>>,
           <<Rec(1, ManyItems), Rec(11, <<ItemA>>),
             Rec(1, <<[ManyItems[11] EXCEPT !.sku = ManySkus[2]]>>)>>),
      Call(LongSellers, LadderRecords),
      Call(<<[id |-> 12], [id |-> 11], [id |-> 13]>>,
           <<Rec(11, <<ItemA>>), Rec(12, <<ItemA>>)>>) }

BadFields == {UndefinedField, FalsyField, ObjectField, Arr(<<>>)}

\* Calls in which each collection is either a small valid array or no
\* non-empty array, and the call without data.
EdgeData ==
    [present : {TRUE},
     sellers : BadFields \cup {Arr(<<[id |-> 1]>>)},
     products : BadFields \cup {Arr(Catalog)},
     purchase_records : BadFields \cup {Arr(<<r>>) : r \in RecordPool}]
        \cup
    [present : {FALSE},
     sellers : {UndefinedField},
     products : {UndefinedField},
     purchase_records : {UndefinedField}]

GoodOptions ==
    { [present |-> TRUE, calculateRevenue |-> "calculateSimpleRevenue",
       calculateBonus |-> "calculateBonusByProfit"],
      [present |-> TRUE, calculateRevenue |-> "calculateSimpleRevenueDefault",
       calculateBonus |-> "calculateBonusByProfit"],
      [present |-> TRUE, calculateRevenue |-> "calculateSimpleRevenue",
       calculateBonus |-> "calculateBonusAmount"] }

AllOptions ==
    [present : {TRUE},
     calculateRevenue : RevenueStrategies \cup {NoFunction},
     calculateBonus : BonusStrategies \cup {NoFunction}]
        \cup
    {[present |-> FALSE, calculateRevenue |-> NoFunction, calculateBonus |-> NoFunction]}

NoIndex == [s \in {} |-> NoProduct]

Init ==
    /\ \/ data \in ValidData /\ options \in GoodOptions
       \/ data \in FocusData /\ options \in GoodOptions
       \/ data \in EdgeData /\ options \in AllOptions
    /\ pc = "validate"
    /\ error = "none"
    /\ productsIndex = NoIndex
    /\ sellerStats = <<>>
    /\ recIdx = 0
    /\ revenueCalls = <<>>
    /\ rankedSellers = <<>>
    /\ finalReport = <<>>

Throw(e) ==
    /\ pc' = "failed"
    /\ error' = e
    /\ UNCHANGED <<data, options, productsIndex, sellerStats, recIdx,
                   revenueCalls, rankedSellers, finalReport>>

\* if (!data || ...) throw new Error("Некорректные или неполные входные данные.")
ValidateThrow ==
    /\ pc = "validate"
    /\ InvalidData(data)
    /\ Throw("InvalidInput")

ValidateOk ==
    /\ pc = "validate"
    /\ ~InvalidData(data)
    /\ pc' = "options"
    /\ UNCHANGED <<data, options, error, productsIndex, sellerStats, recIdx,
                   revenueCalls, rankedSellers, finalReport>>

\* if (!calculateRevenue || !calculateBonus) throw new Error(...)
OptionsThrow ==
    /\ pc = "options"
    /\ MissingStrategy(options)
    /\ Throw("MissingStrategy")

OptionsOk ==
    /\ pc = "options"
    /\ ~MissingStrategy(options)
    /\ pc' = "index"
    /\ UNCHANGED <<data, options, error, productsIndex, sellerStats, recIdx,
                   revenueCalls, rankedSellers, finalReport>>

\* data.products.reduce or data.sellers.reduce is not a function.
IndexThrow ==
    /\ pc = "index"
    /\ data.products.kind # "array" \/ data.sellers.kind # "array"
    /\ Throw("TypeError")

\* productsIndex, sellerIndex and sellerStats.
BuildIndexes ==
    /\ pc = "index"
    /\ data.products.kind = "array" /\ data.sellers.kind = "array"
    /\ productsIndex' = ProductsIndexOf(data.products.elems)
    /\ sellerStats' = SellerStatsOf(data.sellers.elems)
    /\ recIdx' = 1
    /\ pc' = "records"
    /\ UNCHANGED <<data, options, error, revenueCalls, rankedSellers, finalReport>>

\* data.purchase_records.forEach is not a function.
RecordsThrow ==
    /\ pc = "records"
    /\ data.purchase_records.kind # "array"
    /\ Throw("TypeError")

\* One call of the forEach callback.
NextRecord ==
    /\ pc = "records"
    /\ data.purchase_records.kind = "array"
    /\ recIdx <= Len(data.purchase_records.elems)
    /\ LET record == data.purchase_records.elems[recIdx]
       IN  /\ sellerStats' = ProcessRecord(sellerStats, record, productsIndex,
                                           options.calculateRevenue)
           /\ revenueCalls' = revenueCalls \o RevenueCallsOf(sellerStats, record, recIdx)
    /\ recIdx' = recIdx + 1
    /\ UNCHANGED <<data, options, pc, error, productsIndex, rankedSellers, finalReport>>

\* Object.values(sellerStats).map(...) and rankedSellers.sort(...)
RankSellers ==
    /\ pc = "records"
    /\ data.purchase_records.kind = "array"
    /\ recIdx > Len(data.purchase_records.elems)
    /\ rankedSellers' \in SortOutcomes(WithProfit(sellerStats))
    /\ pc' = "report"
    /\ UNCHANGED <<data, options, error, productsIndex, sellerStats, recIdx,
                   revenueCalls, finalReport>>

\* const finalReport = rankedSellers.map(...); return finalReport;
BuildReport ==
    /\ pc = "report"
    /\ finalReport' = FinalReportOf(rankedSellers, options.calculateBonus)
    /\ pc' = "done"
    /\ UNCHANGED <<data, options, error, productsIndex, sellerStats, recIdx,
                   revenueCalls, rankedSellers>>

Next ==
    \/ ValidateThrow
    \/ ValidateOk
    \/ OptionsThrow
    \/ OptionsOk
    \/ IndexThrow
    \/ BuildIndexes
    \/ RecordsThrow
    \/ NextRecord
    \/ RankSellers
    \/ BuildReport

Spec == Init /\ [][Next]_vars

----------------------------------------------------------------------------
(* What the claims speak of *)

Sellers == data.sellers.elems

Records == data.purchase_records.elems

SellerIdSet == {Sellers[i].id : i \in DOMAIN Sellers}

\* The call returned its report.
Returned == pc = "done"

\* The purchase records of seller id, in input order.
RecordsOfSeller(id) == SelectSeq(Records, LAMBDA r : r.seller_id = id)

\* The line items of seller id, in the order the call meets them.
RECURSIVE ItemsOfRecords(_)
ItemsOfRecords(records) ==
    IF records = <<>> THEN <<>>
    ELSE ItemsOfRecords(Front(records)) \o Last(records).items

RECURSIVE SumSeq(_)
SumSeq(xs) == IF xs = <<>> THEN 0 ELSE Add(SumSeq(Front(xs)), Last(xs))

RowsOf(id) == {i \in DOMAIN finalReport : finalReport[i].seller_id = id}

\* C1: for every input that passes validation the report has exactly one
\* row per distinct seller id of data.sellers, whether or not a purchase
\* record refers to the seller.
C1_OneRowPerSellerId ==
    Returned =>
        /\ Len(finalReport) = Cardinality(SellerIdSet)
        /\ \A id \in SellerIdSet : Cardinality(RowsOf(id)) = 1

\* A report of a call that lists a seller id twice and a seller without
\* any purchase record.
C1_Witness ==
    /\ Returned
    /\ Len(Sellers) > Cardinality(SellerIdSet)
    /\ \E id \in SellerIdSet : RecordsOfSeller(id) = <<>>
    /\ \E id \in SellerIdSet : ItemsOfRecords(RecordsOfSeller(id)) # <<>>
    /\ \A i \in DOMAIN finalReport : finalReport[i].profit # NaN

\* C2: the sales_count of every row is the number of purchase records of
\* that seller, one per record whatever its line items.
C2_SalesCountIsRecordCount ==
    Returned =>
        \A i \in DOMAIN finalReport :
            finalReport[i].sales_count = N(Len(RecordsOfSeller(finalReport[i].seller_id)))

\* C3: the report is ordered by profit descending: each row's profit is >=
\* the profit of the row after it.
C3_SortedByProfit ==
    Returned =>
        \A i \in 1..(Len(finalReport) - 1) :
            Geq(finalReport[i].profit, finalReport[i + 1].profit)

\* The table of the bonus rules: the first rule that matches the zero-based
\* rank index among total sellers gives the multiplier.
TierMultiplier(index, total) ==
    IF index = 0 THEN 15 * Hundred
    ELSE IF index \in {1, 2} THEN 10 * Hundred
    ELSE IF index = total - 1 THEN 0
    ELSE 5 * Hundred

DefaultBonus == options.calculateBonus = "calculateBonusByProfit"

\* C4: the bonus strategy returns the amount: calculateBonusByProfit returns
\* profit x multiplier, and the bonus of a row is the return value of the
\* strategy supplied, rounded to two decimals, not multiplied by the profit
\* again.
C4_BonusIsStrategyAmount ==
    Returned =>
        \A i \in DOMAIN finalReport :
            /\ finalReport[i].bonus =
                   ToFixed2(CallBonus(options.calculateBonus, i - 1,
                                      Len(rankedSellers), rankedSellers[i]))
            /\ calculateBonusByProfit(i - 1, Len(rankedSellers), rankedSellers[i]) =
                   Mul(rankedSellers[i].profit, TierMultiplier(i - 1, Len(rankedSellers)))

\* C5: with the default strategy the bonus of the row at rank index is its
\* profit times the multiplier of the first matching rule: 0.15 at index 0,
\* 0.10 at index 1 or 2, 0 at index total-1, 0.05 otherwise; a single
\* seller gets 0.15.
C5_BonusByFirstMatchingRule ==
    (Returned /\ DefaultBonus) =>
        \A i \in DOMAIN finalReport :
            finalReport[i].bonus =
                ToFixed2(Mul(finalReport[i].profit, TierMultiplier(i - 1, Len(finalReport))))

\* A report of five sellers under the default strategy in which the rows at
\* index 3 (the 0.05 rule) and index 4 (the bottom rule) both have a profit
\* that is not 0.
C5_Witness ==
    /\ Returned /\ DefaultBonus
    /\ Len(finalReport) = 5
    /\ \A i \in DOMAIN finalReport : finalReport[i].profit # NaN
    /\ finalReport[4].profit # 0 /\ finalReport[4].bonus # 0
    /\ finalReport[5].profit # 0 /\ finalReport[5].bonus = 0

\* C6 as stated: with exactly three sellers and the default strategy the
\* seller ranked last gets multiplier 0, a bonus of 0.00 whatever the profit.
C6_LastOfThreeGetsZero ==
    (Returned /\ DefaultBonus /\ Len(finalReport) = 3) => finalReport[3].bonus = 0

\* C6 amended: with exactly three sellers and the default strategy the
\* seller ranked last (index 2) falls under the rule for index 1 or 2, which
\* is checked before the bottom rule: the bonus is 0.10 x profit.
C6_LastOfThreeGetsTenPercent ==
    (Returned /\ DefaultBonus /\ Len(finalReport) = 3) =>
        finalReport[3].bonus = ToFixed2(Mul(finalReport[3].profit, 10 * Hundred))

\* A report of three sellers under the default strategy whose last row has
\* a profit, and so a bonus, that is not 0.
C6_Witness ==
    /\ Returned /\ DefaultBonus
    /\ Len(finalReport) = 3
    /\ finalReport[3].profit \notin {0, NaN}
    /\ finalReport[3].bonus # 0

\* Whether a collection is a non-empty sequence.
NonEmptySequence(field) == field.kind = "array" /\ field.elems # <<>>

ValidCollections ==
    /\ data.present
    /\ NonEmptySequence(data.sellers)
    /\ NonEmptySequence(data.products)
    /\ NonEmptySequence(data.purchase_records)

\* C7: the call fails with the invalid-input error and returns no report
\* whenever data is absent or one of the three collections is not a
\* non-empty sequence.
C7_InvalidInputRejected ==
    (~ValidCollections /\ pc \in {"failed", "done"}) =>
        /\ pc = "failed"
        /\ error = "InvalidInput"
        /\ finalReport = <<>>

SuppliesBoth ==
    /\ options.present
    /\ options.calculateRevenue \in RevenueStrategies
    /\ options.calculateBonus \in BonusStrategies

\* C8: for valid data the call fails with the missing-strategy error,
\* before any indexing or aggregation and without a report, whenever
\* options is absent or lacks the revenue or the bonus function.
C8_MissingStrategyRejected ==
    (ValidCollections /\ ~SuppliesBoth) =>
        /\ pc \in {"validate", "options", "failed"}
        /\ pc = "failed" => error = "MissingStrategy"
        /\ productsIndex = NoIndex
        /\ sellerStats = <<>>
        /\ revenueCalls = <<>>
        /\ rankedSellers = <<>>
        /\ finalReport = <<>>

\* A call with valid data whose options hold the revenue function only has
\* failed with the missing-strategy error.
C8_Witness ==
    /\ ValidCollections
    /\ options.present
    /\ options.calculateRevenue \in RevenueStrategies
    /\ options.calculateBonus = NoFunction
    /\ pc = "failed" /\ error = "MissingStrategy"

RECURSIVE FoldRecords(_, _, _, _)
FoldRecords(stats, records, index, f) ==
    IF records = <<>> THEN stats
    ELSE ProcessRecord(FoldRecords(stats, Front(records), index, f),
                       Last(records), index, f)

KnownSeller(r) == r.seller_id \in SellerIdSet

Aggregating == pc \in {"records", "report", "done"}

\* C9: a purchase record whose seller_id matches no seller is skipped as a
\* whole: the call does not fail, the revenue strategy is not applied to its
\* items, and every accumulator is what it is with the record left out of
\* the input.
C9_UnknownSellerSkipped ==
    /\ (ValidCollections /\ SuppliesBoth) => pc # "failed"
    /\ Aggregating =>
        /\ \A c \in DOMAIN revenueCalls : KnownSeller(Records[revenueCalls[c][1]])
        /\ sellerStats =
               FoldRecords(SellerStatsOf(Sellers),
                           SelectSeq(SubSeq(Records, 1, recIdx - 1), KnownSeller),
                           productsIndex, options.calculateRevenue)

\* A returned report of a call with a record, holding items, of an unknown
\* seller and a record, holding items, of a known one.
C9_Witness ==
    /\ Returned
    /\ \E i \in DOMAIN Records : ~KnownSeller(Records[i]) /\ Records[i].items # <<>>
    /\ \E i \in DOMAIN Records : KnownSeller(Records[i]) /\ Records[i].items # <<>>

KnownSku(sku) == \E i \in DOMAIN data.products.elems : data.products.elems[i].sku = sku

\* What an item adds to the cost: 0 for a sku the catalog does not have.
ExpectedItemCost(item) ==
    IF KnownSku(item.sku)
    THEN roundToTwo(Mul(productsIndex[item.sku].purchase_price, item.quantity))
    ELSE 0

ExpectedItemRevenue(item) ==
    roundToTwo(CallRevenue(options.calculateRevenue, item,
                           IF KnownSku(item.sku) THEN productsIndex[item.sku]
                           ELSE NoProduct))

SoldCount(st, sku) ==
    IF SoldPos(st.products_sold, sku) = 0 THEN 0
    ELSE st.products_sold[SoldPos(st.products_sold, sku)].count

\* The revenue call for item k of record r was made.
Called(r, k) == \E c \in DOMAIN revenueCalls : revenueCalls[c] = <<r, k>>

\* C10: a line item of a known seller whose sku is not in data.products is
\* not skipped and does not fail the call: it adds 0 to the cost, its
\* quantity is added to products_sold[sku] and its revenue comes from the
\* revenue strategy and is added to the seller's revenue.
C10_UnknownSkuCounted ==
    /\ (ValidCollections /\ SuppliesBoth) => pc # "failed"
    /\ pc \in {"report", "done"} =>
        /\ \A r \in DOMAIN Records : \A k \in DOMAIN Records[r].items :
               (KnownSeller(Records[r]) /\ ~KnownSku(Records[r].items[k].sku))
                   => Called(r, k)
        /\ \A i \in DOMAIN sellerStats :
               LET st == sellerStats[i]
                   items == ItemsOfRecords(RecordsOfSeller(st.seller_id))
                   unknown == {items[k].sku : k \in DOMAIN items} \ {sku \in {items[k].sku : k \in DOMAIN items} : KnownSku(sku)}
               IN  /\ st.cost = SumSeq([k \in DOMAIN items |-> ExpectedItemCost(items[k])])
                   /\ st.revenue = SumSeq([k \in DOMAIN items |-> ExpectedItemRevenue(items[k])])
                   /\ \A sku \in unknown :
                          SoldCount(st, sku) =
                              SumSeq([k \in DOMAIN items |->
                                         IF items[k].sku = sku THEN items[k].quantity ELSE 0])

\* A returned report of a seller with a finite revenue who sold a sku that
\* the catalog does not have.
C10_Witness ==
    /\ Returned
    /\ \E i \in DOMAIN sellerStats :
           /\ sellerStats[i].revenue \notin {0, NaN}
           /\ \E k \in DOMAIN sellerStats[i].products_sold :
                  /\ ~KnownSku(sellerStats[i].products_sold[k].sku)
                  /\ sellerStats[i].products_sold[k].count > 0

\* An exact multiple of 0.01.
TwoDecimals(x) == x # NaN /\ x % Hundred = 0

\* C11: in every row of the report, revenue, profit and bonus are exact
\* multiples of 0.01, for every valid input.
C11_AmountsHaveTwoDecimals ==
    Returned =>
        \A i \in DOMAIN finalReport :
            /\ TwoDecimals(finalReport[i].revenue)
            /\ TwoDecimals(finalReport[i].profit)
            /\ TwoDecimals(finalReport[i].bonus)

\* The nearest multiple of 0.01, a tie going away from zero.
RECURSIVE NearestCentTiesAway(_)
NearestCentTiesAway(x) ==
    IF x = NaN THEN NaN
    ELSE IF x < 0 THEN 0 - NearestCentTiesAway(0 - x)
    ELSE IF 2 * (x % Hundred) >= Hundred THEN x - (x % Hundred) + Hundred
    ELSE x - (x % Hundred)

\* The product the call looks up for an item.
ProductOf(item) == IF KnownSku(item.sku) THEN productsIndex[item.sku] ELSE NoProduct

\* C12: every two-decimal rounding behind the emitted revenue, profit and
\* bonus goes to the nearest 0.01, a tie going away from zero, for negative
\* amounts as for positive ones: the revenue and the cost of each line item,
\* the profit of each seller and the three amounts of each row.
C12_RoundsHalfAwayFromZero ==
    pc \in {"report", "done"} =>
        /\ \A i \in DOMAIN sellerStats :
               LET st == sellerStats[i]
                   items == ItemsOfRecords(RecordsOfSeller(st.seller_id))
               IN  /\ st.revenue =
                          SumSeq([k \in DOMAIN items |->
                                     NearestCentTiesAway(
                                         CallRevenue(options.calculateRevenue, items[k],
                                                     ProductOf(items[k])))])
                   /\ st.cost =
                          SumSeq([k \in DOMAIN items |->
                                     NearestCentTiesAway(
                                         IF KnownSku(items[k].sku)
                                         THEN Mul(productsIndex[items[k].sku].purchase_price,
                                                  items[k].quantity)
                                         ELSE 0)])
        /\ \A i \in DOMAIN rankedSellers :
               rankedSellers[i].profit =
                   NearestCentTiesAway(Sub(rankedSellers[i].revenue, rankedSellers[i].cost))
        /\ \A i \in DOMAIN finalReport :
               /\ finalReport[i].revenue = NearestCentTiesAway(rankedSellers[i].revenue)
               /\ finalReport[i].profit = NearestCentTiesAway(rankedSellers[i].profit)
               /\ finalReport[i].bonus =
                      NearestCentTiesAway(
                          Mul(rankedSellers[i].profit,
                              CallBonus(options.calculateBonus, i - 1, Len(rankedSellers),
                                        rankedSellers[i])))

\* The skus of the line items of seller id.
SkusOfSeller(id) ==
    LET items == ItemsOfRecords(RecordsOfSeller(id))
    IN  {items[k].sku : k \in DOMAIN items}

\* The quantity of sku over all line items of all records of seller id.
CumulativeQuantity(id, sku) ==
    LET items == ItemsOfRecords(RecordsOfSeller(id))
    IN  SumSeq([k \in DOMAIN items |->
                   IF items[k].sku = sku THEN items[k].quantity ELSE 0])

KeptSkus(row) == {row.top_products[k].sku : k \in DOMAIN row.top_products}

\* C13: in every row top_products has at most 10 entries, each a sku of the
\* seller with its cumulative quantity, in descending order of quantity; a
\* seller of more than 10 skus keeps 10, and no sku left out has a larger
\* cumulative quantity than a sku kept.
C13_TopTenByQuantity ==
    Returned =>
        \A i \in DOMAIN finalReport :
            LET row == finalReport[i]
                top == row.top_products
                skus == SkusOfSeller(row.seller_id)
            IN  /\ Len(top) <= 10
                /\ Len(top) = Cardinality(KeptSkus(row))
                /\ KeptSkus(row) \subseteq skus
                /\ Cardinality(skus) <= 10 => KeptSkus(row) = skus
                /\ Cardinality(skus) > 10 => Len(top) = 10
                /\ \A k \in DOMAIN top :
                       top[k].quantity = CumulativeQuantity(row.seller_id, top[k].sku)
                /\ \A k \in 1..(Len(top) - 1) : Geq(top[k].quantity, top[k + 1].quantity)
                /\ \A out \in skus \ KeptSkus(row) : \A k \in DOMAIN top :
                       Geq(top[k].quantity, CumulativeQuantity(row.seller_id, out))

\* A report with a seller of more than 10 skus, one of them sold in two
\* records: the row keeps a sku that is met after a sku it leaves out.
C13_Witness ==
    /\ Returned
    /\ \E i \in DOMAIN finalReport :
           LET row == finalReport[i]
               skus == SkusOfSeller(row.seller_id)
               items == ItemsOfRecords(RecordsOfSeller(row.seller_id))
           IN  /\ Cardinality(skus) > 10
               /\ Len(RecordsOfSeller(row.seller_id)) > 1
               /\ Len(items) > Cardinality(skus)
               /\ \E a, b \in DOMAIN items :
                      /\ a < b
                      /\ items[a].sku \notin KeptSkus(row)
                      /\ items[b].sku \in KeptSkus(row)

\* No purchase record refers to seller id.
Idle(id) == RecordsOfSeller(id) = <<>>

\* C14: a seller that no purchase record refers to gets a row with revenue
\* 0, profit 0, sales_count 0 and no top product; its bonus is what the tier
\* of its rank gives for its profit, which is 0.
C14_IdleSellerRow ==
    Returned =>
        \A i \in DOMAIN finalReport :
            Idle(finalReport[i].seller_id) =>
                /\ finalReport[i].revenue = 0
                /\ finalReport[i].profit = 0
                /\ finalReport[i].sales_count = 0
                /\ finalReport[i].top_products = <<>>
                /\ finalReport[i].bonus = 0
                /\ DefaultBonus =>
                       finalReport[i].bonus =
                           ToFixed2(Mul(finalReport[i].profit,
                                        TierMultiplier(i - 1, Len(finalReport))))

\* A report under the default strategy in which a seller without records
\* is ranked first, above a seller with a loss, and another seller without
\* records is ranked lower.
C14_Witness ==
    /\ Returned /\ DefaultBonus
    /\ Idle(finalReport[1].seller_id)
    /\ \E j \in DOMAIN finalReport : j > 1 /\ Idle(finalReport[j].seller_id)
    /\ \E j \in DOMAIN finalReport :
           /\ finalReport[j].profit < 0
           /\ finalReport[j].profit # NaN
           /\ finalReport[j].bonus # 0

\* sale_price x quantity x (1 - discount/100), un-rounded, a line item
\* without a discount counting as one with discount 0.
DiscountedPrice(item) ==
    LET discount == IF item.discount = Undefined THEN 0 ELSE item.discount
    IN  Mul(Mul(item.sale_price, item.quantity), Sub(N(1), DivHundred(discount)))

\* The line item of the c-th calculateRevenue call.
ItemOfCall(c) == Records[revenueCalls[c][1]].items[revenueCalls[c][2]]

\* C15: calculateSimpleRevenue(lineItem, product) returns sale_price x
\* quantity x (1 - discount/100), un-rounded, and sale_price x quantity for
\* a line item that has no discount field.
C15_SimpleRevenueDefaultsDiscount ==
    options.calculateRevenue = "calculateSimpleRevenue" =>
        \A c \in DOMAIN revenueCalls :
            calculateSimpleRevenue(ItemOfCall(c), ProductOf(ItemOfCall(c))) =
                DiscountedPrice(ItemOfCall(c))

\* The rows of the variant that rounds in the emitted row only, for the
\* arguments of this call, in the order of its sellerStats.
LateRows ==
    LET late == SellersUnrounded(data, options.calculateRevenue)
    IN  [k \in DOMAIN late |-> EmittedUnrounded(late[k])]

\* The two variants emit the same revenue and the same profit for the
\* seller of row i of the report, whose row in rows is that of the same id.
SameAmounts(i, rows) ==
    \E k \in DOMAIN rows :
        /\ rows[k].seller_id = finalReport[i].seller_id
        /\ rows[k].revenue = finalReport[i].revenue
        /\ rows[k].profit = finalReport[i].profit

\* C16 as stated: for the same input and strategies, main.js, which rounds
\* the revenue and the cost of each line item before it adds them, and the
\* variant that adds them un-rounded and rounds in the emitted row only emit
\* the same revenue and the same profit for every seller.
C16_RoundingPlaceUnobservable ==
    Returned =>
        LET rows == LateRows
        IN  \A i \in DOMAIN finalReport : SameAmounts(i, rows)

\* Rounding to two decimals leaves x as it is.
AlreadyRounded(x) == roundToTwo(x) = x

\* Rounding leaves the revenue and the cost of every line item of seller id
\* as they are.
ItemsAlreadyRounded(id) ==
    LET items == ItemsOfRecords(RecordsOfSeller(id))
    IN  \A k \in DOMAIN items :
            /\ AlreadyRounded(CallRevenue(options.calculateRevenue, items[k],
                                          ProductOf(items[k])))
            /\ AlreadyRounded(IF KnownSku(items[k].sku)
                              THEN Mul(productsIndex[items[k].sku].purchase_price,
                                       items[k].quantity)
                              ELSE 0)

\* C16 amended: the two variants emit the same revenue and the same profit
\* for every seller whose line items each have a revenue and a cost that
\* rounding to two decimals leaves as it is.
C16_SameAmountsForRoundedItems ==
    Returned =>
        LET rows == LateRows
        IN  \A i \in DOMAIN finalReport :
                ItemsAlreadyRounded(finalReport[i].seller_id) => SameAmounts(i, rows)

\* A report with a seller of two records, one of them of several items,
\* whose items all have a revenue of two decimals, with a revenue and a
\* profit that are numbers other than 0.
C16_Witness ==
    /\ Returned
    /\ \E i \in DOMAIN finalReport :
           /\ ItemsAlreadyRounded(finalReport[i].seller_id)
           /\ Len(RecordsOfSeller(finalReport[i].seller_id)) > 1
           /\ Len(ItemsOfRecords(RecordsOfSeller(finalReport[i].seller_id))) > 2
           /\ finalReport[i].revenue \notin {0, NaN}
           /\ finalReport[i].profit \notin {0, NaN}
           /\ SameAmounts(i, LateRows)

\* The sellers the call would rank, had it been given its purchase records
\* in the order perm; fresh is sellerStats as it is before the first record.
SellersInOrder(perm, fresh) ==
    WithProfit(FoldRecords(fresh, [k \in DOMAIN Records |-> Records[perm[k]]],
                           productsIndex, options.calculateRevenue))

\* The forEach has met every purchase record and the sellers are not
\* ranked yet.
Aggregated == pc = "records" /\ recIdx > Len(Records)

\* C17: permuting data.purchase_records changes no seller's emitted
\* revenue, profit, sales_count or bonus, nor the quantity of any sku in the
\* seller's products_sold.  Once the records are aggregated, every order of
\* the records gives the same sellers in the same order with the same
\* amounts and quantities, so the sort ranks them alike; and the row of a
\* seller is made of these amounts and of its rank.
C17_RecordOrderIrrelevant ==
    /\ Aggregated =>
           LET mine == WithProfit(sellerStats)
               fresh == SellerStatsOf(Sellers)
           IN  \A perm \in Permutations(DOMAIN Records) :
                   LET other == SellersInOrder(perm, fresh)
                   IN  /\ Len(other) = Len(mine)
                       /\ \A k \in DOMAIN mine :
                              /\ other[k].seller_id = mine[k].seller_id
                              /\ other[k].revenue = mine[k].revenue
                              /\ other[k].profit = mine[k].profit
                              /\ other[k].sales_count = mine[k].sales_count
                              /\ \A sku \in SkusOfSeller(mine[k].seller_id) :
                                     SoldCount(other[k], sku) = SoldCount(mine[k], sku)
    /\ Returned =>
           LET mine == WithProfit(sellerStats)
           IN  \A i \in DOMAIN finalReport :
                   LET seller == mine[StatsPos(mine, finalReport[i].seller_id)]
                       row == ReportRow([seller EXCEPT !.products_sold = <<>>],
                                        i - 1, Len(finalReport), options.calculateBonus)
                   IN  /\ row.revenue = finalReport[i].revenue
                       /\ row.profit = finalReport[i].profit
                       /\ row.sales_count = finalReport[i].sales_count
                       /\ row.bonus = finalReport[i].bonus

\* A report of two sellers, the first of whom has two different records
\* with items, with a profit that is a number other than 0.
C17_Witness ==
    /\ Returned
    /\ Len(finalReport) > 1
    /\ \E a, b \in DOMAIN Records :
           /\ a < b
           /\ Records[a] # Records[b]
           /\ Records[a].seller_id = Records[b].seller_id
           /\ Records[a].seller_id = finalReport[1].seller_id
           /\ Records[a].items # <<>> /\ Records[b].items # <<>>
    /\ finalReport[1].profit \notin {0, NaN}
    /\ finalReport[1].bonus # 0

\* The quantities of products_sold, added up.
RECURSIVE SoldTotal(_)
SoldTotal(sold) ==
    IF sold = <<>> THEN 0 ELSE Add(SoldTotal(Front(sold)), Last(sold).count)

\* C18: after aggregation, for every seller and every sku, products_sold[sku]
\* is the sum of the quantity of all line items of that sku in all records
\* of the seller; products_sold has the skus of those items and no other,
\* and its quantities add up to the quantity of all line items of the seller.
C18_ProductsSoldSumsQuantities ==
    pc \in {"report", "done"} =>
        \A i \in DOMAIN sellerStats :
            LET st == sellerStats[i]
                id == st.seller_id
                items == ItemsOfRecords(RecordsOfSeller(id))
            IN  /\ {st.products_sold[k].sku : k \in DOMAIN st.products_sold} = SkusOfSeller(id)
                /\ Len(st.products_sold) = Cardinality(SkusOfSeller(id))
                /\ \A sku \in SkusOfSeller(id) :
                       SoldCount(st, sku) = CumulativeQuantity(id, sku)
                /\ SoldTotal(st.products_sold) =
                       SumSeq([k \in DOMAIN items |-> items[k].quantity])

\* A seller with a sku in several line items of one record and in another
\* record, next to other skus.
C18_Witness ==
    /\ pc = "done"
    /\ \E i \in DOMAIN sellerStats :
           LET id == sellerStats[i].seller_id
               items == ItemsOfRecords(RecordsOfSeller(id))
           IN  /\ Len(RecordsOfSeller(id)) > 1
               /\ Cardinality(SkusOfSeller(id)) > 1
               /\ \E a, b \in DOMAIN RecordsOfSeller(id) :
                      /\ a # b
                      /\ \E k \in DOMAIN RecordsOfSeller(id)[a].items :
                             \E l \in DOMAIN RecordsOfSeller(id)[b].items :
                                 /\ RecordsOfSeller(id)[a].items[k].sku =
                                        RecordsOfSeller(id)[b].items[l].sku
                                 /\ SoldCount(sellerStats[i],
                                              RecordsOfSeller(id)[a].items[k].sku) >
                                        RecordsOfSeller(id)[a].items[k].quantity
                                            + RecordsOfSeller(id)[b].items[l].quantity

\* Where seller id first appears in data.sellers.
FirstAppearance(id) ==
    CHOOSE i \in DOMAIN Sellers :
        /\ Sellers[i].id = id
        /\ \A j \in 1..(i - 1) : Sellers[j].id # id

\* C19: ties in rank are broken by input order: two sellers whose rounded
\* profits are equal appear in the report in the order in which they appear
\* in data.sellers.
C19_TiesKeepInputOrder ==
    Returned =>
        \A i, j \in DOMAIN finalReport :
            (/\ i < j
             /\ finalReport[i].profit # NaN
             /\ finalReport[i].profit = finalReport[j].profit)
                => FirstAppearance(finalReport[i].seller_id) <
                       FirstAppearance(finalReport[j].seller_id)

\* Every seller's profit is a number that is not negative.
NoLoss == \A i \in DOMAIN finalReport : Geq(finalReport[i].profit, 0)

\* C20: with the default bonus strategy, if every seller's profit is
\* non-negative the emitted bonuses do not increase down the report: the
\* bonus of each row is >= the bonus of the row after it.
C20_BonusesNonIncreasing ==
    (Returned /\ DefaultBonus /\ NoLoss) =>
        \A i \in 1..(Len(finalReport) - 1) :
            Geq(finalReport[i].bonus, finalReport[i + 1].bonus)

\* A report of five sellers or more under the default strategy, each with a
\* profit above that of the next: the bonuses fall from row to row down to
\* the last, which gets 0.
C20_Witness ==
    /\ Returned /\ DefaultBonus /\ NoLoss
    /\ Len(finalReport) >= 5
    /\ \A i \in 1..(Len(finalReport) - 1) :
           /\ finalReport[i].profit > finalReport[i + 1].profit
           /\ finalReport[i].bonus > finalReport[i + 1].bonus
    /\ finalReport[Len(finalReport)].profit > 0
    /\ finalReport[Len(finalReport)].bonus = 0

====
